---- MODULE Spec2Model ----
(***************************************************************************)
(* A model of src/src/plugin.ts (vite-plugin-ssr): the resolution of the   *)
(* plugin options into target descriptors and build environments, the     *)
(* production build (buildApp) and the development request router          *)
(* (configureServer).                                                      *)
(*                                                                         *)
(* JavaScript values are modelled as follows.                              *)
(*  - a string is a TLA+ string; `undefined` is the string Undefined;      *)
(*  - an object whose key order matters (options.apis, the environments    *)
(*    map, ctx.apis) is a sequence of [key, value] records with pairwise   *)
(*    distinct keys, in insertion order.  API names are JavaScript         *)
(*    identifiers (they are emitted as import bindings by                  *)
(*    createIndexContent), so no key is integer-like and insertion order   *)
(*    is the enumeration order of Object.entries;                          *)
(*  - a target configuration is [type, entry, route, environment], type    *)
(*    "string" for the bare entry-path form and "object" otherwise.        *)
(***************************************************************************)
EXTENDS Integers, Sequences, FiniteSets, TLC

Undefined == "<undefined>"

\* ------------------------------------------------------------------ bounds
MaxApis == 2
MaxRequests == 1
MaxEdits == 1
MaxTags == 2
MaxNotifications == 2
MaxModules == 2

\* ------------------------------------------------------- ordered JS objects
ObjKeys(obj) == {obj[i].key : i \in DOMAIN obj}

ObjHas(obj, k) == \E i \in DOMAIN obj : obj[i].key = k

ObjGet(obj, k) == obj[CHOOSE i \in DOMAIN obj : obj[i].key = k].value

\* obj[k] = v: replaces the value in place when k is present, appends otherwise
ObjSet(obj, k, v) ==
    IF ObjHas(obj, k)
    THEN [i \in DOMAIN obj |-> IF obj[i].key = k THEN [key |-> k, value |-> v] ELSE obj[i]]
    ELSE Append(obj, [key |-> k, value |-> v])

ObjectEntries(obj) == obj

\* String.prototype.startsWith
StartsWith(s, prefix) ==
    /\ Len(prefix) <= Len(s)
    /\ SubSeq(s, 1, Len(prefix)) = prefix

\* ------------------------------------------------------------ configuration
StringConfig(e) ==
    [type |-> "string", entry |-> e, route |-> Undefined, environment |-> Undefined]

ObjectConfig(e, r, env) ==
    [type |-> "object", entry |-> e, route |-> r, environment |-> env]

\* the `environment` callbacks a configuration may carry
EnvironmentFns == {"external", "returnsUndefined"}

\* calling an `environment` callback: "external" is the README's example,
\* "returnsUndefined" a callback that returns nothing
CallEnvironment(fn, environment) ==
    IF fn = "external"
    THEN [defined |-> TRUE,
          value |-> [environment EXCEPT !.external = "some-external-dependency"]]
    ELSE [defined |-> FALSE, value |-> environment]

\* JavaScript truthiness of an optional string
Truthy(s) == s # Undefined /\ s # ""

\* variant of resolveApi that ignores a configured route
resolveApiMutNoRoute(api, config) ==
    [type |-> "object",
     entry |-> config.entry,
     route |-> "/" \o api,
     environment |-> Undefined]

\* the reducer body of resolveOptions: apis[api] = { entry, route }
resolveApi(api, config) ==
    [type |-> "object",
     entry |-> config.entry,
     route |-> IF config.type # "string" /\ Truthy(config.route)
               THEN config.route
               ELSE "/" \o api,
     environment |-> Undefined]

RECURSIVE resolveApis(_, _)
resolveApis(entries, apis) ==
    IF entries = <<>>
    THEN apis
    ELSE resolveApis(Tail(entries),
                     ObjSet(apis, Head(entries).key,
                            resolveApi(Head(entries).key, Head(entries).value)))

resolveEntry(config) ==
    IF config.type = "string"
    THEN [type |-> "object", entry |-> config.entry,
          route |-> Undefined, environment |-> Undefined]
    ELSE config

resolveOptions(opts) ==
    [client |-> resolveEntry(opts.client),
     ssr |-> resolveEntry(opts.ssr),
     apis |-> IF opts.hasApis
              THEN resolveApis(ObjectEntries(opts.apis), <<>>)
              ELSE <<>>]

getEnvironment(config, environment) ==
    IF config.type = "string"
    THEN environment
    ELSE IF config.environment = Undefined
         THEN environment
         ELSE LET r == CallEnvironment(config.environment, environment)
              IN  IF r.defined THEN r.value ELSE environment

\* path.resolve + normalizePath, with the process working directory /app
PathResolve(p) == "/app/" \o p

clientEnvironment(root, entry) ==
    [outDir |-> root \o "/client",
     input |-> PathResolve(entry),
     entryFileNames |-> "[name]-[hash].js",
     copyPublicDir |-> TRUE,
     external |-> Undefined]

ssrEnvironment(root, entry) ==
    [outDir |-> root \o "/ssr",
     input |-> PathResolve(entry),
     entryFileNames |-> "[name].js",
     copyPublicDir |-> FALSE,
     external |-> Undefined]

apiEnvironment(root, api, entry) ==
    [outDir |-> root \o "/" \o api,
     input |-> PathResolve(entry),
     entryFileNames |-> "[name].js",
     copyPublicDir |-> FALSE,
     external |-> Undefined]

RECURSIVE apiEnvironments(_, _, _)
apiEnvironments(entries, root, acc) ==
    IF entries = <<>>
    THEN acc
    ELSE apiEnvironments(
             Tail(entries), root,
             ObjSet(acc, Head(entries).key,
                    getEnvironment(Head(entries).value,
                                   apiEnvironment(root, Head(entries).key,
                                                  Head(entries).value.entry))))

\* { client: ..., ssr: ..., ...apiEnvironments }: a spread key overwrites an
\* earlier key of the same name and keeps its position
RECURSIVE Spread(_, _)
Spread(obj, src) ==
    IF src = <<>>
    THEN obj
    ELSE Spread(ObjSet(obj, Head(src).key, Head(src).value), Tail(src))

configEnvironments(resolved, entries, root) ==
    Spread(<<[key |-> "client",
              value |-> getEnvironment(resolved.client,
                                       clientEnvironment(root, resolved.client.entry))],
             [key |-> "ssr",
              value |-> getEnvironment(resolved.ssr,
                                       ssrEnvironment(root, resolved.ssr.entry))]>>,
           apiEnvironments(entries, root, <<>>))

\* ---------------------------------------------- configurations considered
ClientConfigs ==
    {StringConfig("c.ts")} \cup
    {ObjectConfig("c.ts", Undefined, e) : e \in {Undefined} \cup EnvironmentFns}

SsrConfigs ==
    {StringConfig("s.ts")} \cup
    {ObjectConfig("s.ts", Undefined, e) : e \in {Undefined, "external"}}

ApiNames == {"api", "admin", "client"}

ApiRoutes == {Undefined, "", "/api", "/api/admin"}

ApiConfigs ==
    {StringConfig("a.ts")} \cup
    {ObjectConfig("a.ts", r, e) : r \in ApiRoutes, e \in {Undefined, "external"}}

\* an `apis` object literal: at most MaxApis keys, pairwise distinct
ApisObjects ==
    UNION {{s \in [1..n -> [key : ApiNames, value : ApiConfigs]] :
               \A i, j \in 1..n : i # j => s[i].key # s[j].key} : n \in 0..MaxApis}

RegistryOptions ==
    {[client |-> c, ssr |-> s, hasApis |-> TRUE, apis |-> a] :
        c \in ClientConfigs, s \in SsrConfigs, a \in ApisObjects}
    \cup {[client |-> c, ssr |-> s, hasApis |-> FALSE, apis |-> <<>>] :
        c \in ClientConfigs, s \in SsrConfigs}

Api(k, v) == [key |-> k, value |-> v]

\* the configurations a build or a development session is run with
SessionApis ==
    {<<>>,
     <<Api("api", StringConfig("a.ts"))>>,
     <<Api("api", ObjectConfig("a.ts", "/api", Undefined)),
       Api("admin", ObjectConfig("b.ts", "/api/admin", Undefined))>>,
     <<Api("admin", ObjectConfig("b.ts", "/api/admin", Undefined)),
       Api("api", StringConfig("a.ts"))>>}

SessionOptions ==
    {[client |-> StringConfig("c.ts"), ssr |-> StringConfig("s.ts"),
      hasApis |-> a # <<>>, apis |-> a] : a \in SessionApis}

\* the configuration the virtual client entry is served under
ClientEntryOptions ==
    {[client |-> StringConfig("c.ts"), ssr |-> StringConfig("s.ts"),
      hasApis |-> FALSE, apis |-> <<>>],
     [client |-> ObjectConfig("src/main.ts", Undefined, Undefined),
      ssr |-> StringConfig("s.ts"), hasApis |-> FALSE, apis |-> <<>>]}

\* the configuration source changes are notified under
HotUpdateOptions ==
    {o \in SessionOptions : Len(o.apis) = 2 /\ o.apis[1].key = "api"}

\* build.outDir of the user configuration: absent, or given
UserOutDirs == {Undefined, "build"}

\* a build or a development session is run with the default output root
SessionOutDirs == {Undefined}

\* base of the resolved configuration: the default, or a public path
Bases == {"/", "/app/"}

\* a build or a development session is run with the default base
SessionBases == {"/"}

\* -------------------------------------------------------------------- state
VARIABLES
    phase,            \* "created" | "configured" | "resolved" | "build" | "dev"
    options,          \* the options ssrPlugin was called with
    resolvedOptions,  \* ssrPlugin: const resolvedOptions
    apiEntries,       \* ssrPlugin: const apiEntries
    outDirRoot,       \* ssrPlugin: let outDirRoot
    environments,     \* the environments map returned by the config hook
    build,            \* buildApp: its position and the jobs' states
    disk,             \* the output root on disk
    injectedScripts,  \* ssrPlugin: let injectedScripts
    source,           \* the current code version of every target's entry
    requests,         \* the development requests and how far each has got
    resolvedConfig,   \* ssrPlugin: let resolvedConfig
    transformedHtml,  \* configureServer: const transformedHtml
    loaded,           \* the last module the resolveId and load hooks served
    hot               \* the source-change notifications and what each sent

vars == <<phase, options, resolvedOptions, apiEntries, outDirRoot, environments,
          build, disk, injectedScripts, source, requests,
          resolvedConfig, transformedHtml, loaded, hot>>

registryVars == <<options, resolvedOptions, apiEntries>>
buildVars == <<build, disk>>
hookVars == <<transformedHtml, loaded, hot>>
devVars == <<injectedScripts, source, requests, hookVars>>

\* ------------------------------------------------------- plugin construction
\* resolvedConfig before the configResolved hook has run
NoConfig == [base |-> Undefined]

\* no module has been asked of the resolveId and load hooks
NotLoaded == [id |-> Undefined, resolved |-> Undefined, code |-> <<>>]

\* ssrPlugin(options): the state when the plugin object is returned
InitWith(optionSet) ==
    /\ options \in optionSet
    /\ resolvedOptions = resolveOptions(options)
    /\ apiEntries = ObjectEntries(resolvedOptions.apis)
    /\ outDirRoot = "dist"
    /\ phase = "created"
    /\ environments = <<>>
    /\ build = [pc |-> "idle", jobs |-> <<>>, content |-> <<>>, writes |-> 0,
                emptied |-> 0]
    /\ disk = [index |-> <<"stale">>, dirs |-> {"dist/stale"}]
    /\ injectedScripts = <<>>
    /\ source = <<>>
    /\ requests = <<>>
    /\ resolvedConfig = NoConfig
    /\ transformedHtml = <<>>
    /\ loaded = NotLoaded
    /\ hot = <<>>

\* the config hook: outDirRoot = config.build?.outDir ?? "dist", and the
\* environments map
Config(userOutDir) ==
    /\ phase = "created"
    /\ LET root == IF userOutDir = Undefined THEN "dist" ELSE userOutDir
       IN  /\ outDirRoot' = root
           /\ environments' = configEnvironments(resolvedOptions, apiEntries, root)
    /\ phase' = "configured"
    /\ UNCHANGED <<registryVars, buildVars, devVars, resolvedConfig>>

\* the configResolved hook: resolvedConfig = config
ConfigResolved(base) ==
    /\ phase = "configured"
    /\ resolvedConfig' = [base |-> base]
    /\ phase' = "resolved"
    /\ UNCHANGED <<registryVars, outDirRoot, environments, buildVars, devVars>>

\* ---------------------------------------------------------- production build
Hash == "a1b2"

\* the [name] of an input /app/<name>.ts
ChunkName(input) == SubSeq(input, Len("/app/") + 1, Len(input) - Len(".ts"))

EntryFileName(env) ==
    IF env.entryFileNames = "[name]-[hash].js"
    THEN ChunkName(env.input) \o "-" \o Hash \o ".js"
    ELSE ChunkName(env.input) \o ".js"

Chunk(f, isEntry, css) == [fileName |-> f, isEntry |-> isEntry, importedCss |-> css]

\* what builder.build(environment) can resolve to: the entry chunk first, then
\* the other chunks; only a build that emits assets has stylesheets
RollupOutputs(env) ==
    IF env.copyPublicDir
    THEN {[output |-> <<Chunk(EntryFileName(env), TRUE, css)>> \o rest] :
             css \in {<<>>, <<"assets/style-" \o Hash \o ".css">>},
             rest \in {<<>>, <<Chunk("assets/lazy-" \o Hash \o ".js", FALSE, <<>>)>>}}
    ELSE {[output |-> <<Chunk(EntryFileName(env), TRUE, <<>>)>>]}

RECURSIVE Join(_, _)
Join(strs, sep) ==
    IF strs = <<>> THEN ""
    ELSE IF Len(strs) = 1 THEN strs[1]
    ELSE strs[1] \o sep \o Join(Tail(strs), sep)

Quote(str) == "\"" \o str \o "\""

\* JSON.stringify of { js, css }
JSONStringifyAssets(assets) ==
    "{" \o Quote("js") \o ":" \o Quote(assets.js) \o "," \o Quote("css") \o ":["
        \o Join([i \in DOMAIN assets.css |-> Quote(assets.css[i])], ",") \o "]}"

\* variant of createIndexAssets that takes the last output chunk as the entry
createIndexAssetsMutLast(client) ==
    [js |-> "/" \o client.output[Len(client.output)].fileName,
     css |-> [i \in DOMAIN client.output[Len(client.output)].importedCss |->
                 "/" \o client.output[Len(client.output)].importedCss[i]]]

\* jsEntry = client.output[0], cssEntries = its viteMetadata.importedCss
createIndexAssets(client) ==
    [js |-> "/" \o client.output[1].fileName,
     css |-> [i \in DOMAIN client.output[1].importedCss |->
                 "/" \o client.output[1].importedCss[i]]]

\* variant of apiOutputs that rotates the API outputs by one place
apiOutputsMutShifted(outputs) ==
    [i \in 1..(Len(outputs) - 2) |-> outputs[(i % (Len(outputs) - 2)) + 3]]

\* const [client, ssr, ...apis] = outputs
apiOutputs(outputs) == SubSeq(outputs, 3, Len(outputs))

\* the import statement of an API: its name, its directory, its entry file
apiImport(api, output) ==
    "import " \o api \o " from './" \o api \o "/" \o output.output[1].fileName \o "';"

\* variant of exportNames that exports the handlers only
exportNamesMutNoContext(entries) ==
    <<"ssr", "ssrWithContext">> \o [i \in DOMAIN entries |-> entries[i].key]

\* ["ssr", "ssrWithContext", "ssrContext", ...apiEntries.map(([api]) => api)]
exportNames(entries) ==
    <<"ssr", "ssrWithContext", "ssrContext">> \o [i \in DOMAIN entries |-> entries[i].key]

\* the lines of the generated module, joined by "\n" when written
createIndexContent(outputs, entries) ==
    LET client == outputs[1]
        ssr == outputs[2]
        apis == apiOutputs(outputs)
    IN  <<"import ssr from './ssr/" \o ssr.output[1].fileName \o "';">>
        \o [i \in DOMAIN entries |-> apiImport(entries[i].key, apis[i])]
        \o <<"async function ssrWithContext(request) { return ssr(request, ssrContext); }",
             "const ssrContext = {",
             "  assets: " \o JSONStringifyAssets(createIndexAssets(client)) \o ",",
             "  apis: {">>
        \o [i \in DOMAIN entries |-> "    " \o entries[i].key \o ","]
        \o <<"  }",
             "};",
             "export { " \o Join(exportNames(entries), ", ") \o " };">>

NoOutput == [output |-> <<>>]

\* the environments buildApp builds, in the order of its Promise.all
buildTargets == <<"client", "ssr">> \o [i \in DOMAIN apiEntries |-> apiEntries[i].key]

\* a build job: what became of the build (status), the state of the promise
\* builder.build returned, and the output it resolved with
startedJob == [status |-> "running", promise |-> "pending", result |-> NoOutput]

resolvedJob(out) == [status |-> "ok", promise |-> "resolved", result |-> out]

\* variant of rejectedJob: the failure is swallowed and a fallback output is
\* resolved instead
rejectedJobMutSwallowed ==
    [status |-> "failed", promise |-> "resolved",
     result |-> [output |-> <<Chunk("fallback.js", TRUE, <<>>)>>]]

\* a failed build rejects the promise of builder.build
rejectedJob == [status |-> "failed", promise |-> "rejected", result |-> NoOutput]

\* Promise.all resolves once every promise has resolved
PromiseAllResolves(jobs) == \A j \in DOMAIN jobs : jobs[j].promise = "resolved"

\* Promise.all rejects as soon as one promise rejects
PromiseAllRejects(jobs) == \E j \in DOMAIN jobs : jobs[j].promise = "rejected"

\* variant of jobsDuringRm in which fs.rm is not awaited: the jobs are
\* started while the output root is still being emptied
jobsDuringRmMutNoAwait(targets) == [j \in DOMAIN targets |-> startedJob]

\* await fs.rm(...): no build job exists until the output root is emptied
jobsDuringRm(targets) == <<>>

\* buildApp is called: fs.rm of the output root is started
BuildApp ==
    /\ phase = "resolved"
    /\ phase' = "build"
    /\ build' = [build EXCEPT !.pc = "rm", !.jobs = jobsDuringRm(buildTargets)]
    /\ UNCHANGED <<registryVars, outDirRoot, environments, resolvedConfig, disk, devVars>>

\* fs.rm has emptied the output root; every build job is started
RmDone ==
    /\ phase = "build" /\ build.pc = "rm"
    /\ disk' = [index |-> <<>>, dirs |-> {}]
    /\ build' = [build EXCEPT
                   !.pc = "all",
                   !.emptied = @ + 1,
                   !.jobs = [j \in DOMAIN buildTargets |-> startedJob]]
    /\ UNCHANGED <<phase, registryVars, outDirRoot, environments, resolvedConfig, devVars>>

\* a build job succeeds: its files are in its outDir
BuildResolves(j) ==
    /\ phase = "build" /\ j \in DOMAIN build.jobs
    /\ build.jobs[j].status = "running"
    /\ LET env == ObjGet(environments, buildTargets[j])
       IN  /\ \E out \in RollupOutputs(env) :
                 build' = [build EXCEPT !.jobs[j] = resolvedJob(out)]
           /\ disk' = [disk EXCEPT !.dirs = @ \cup {env.outDir}]
    /\ UNCHANGED <<phase, registryVars, outDirRoot, environments, resolvedConfig, devVars>>

\* a build job fails
BuildRejects(j) ==
    /\ phase = "build" /\ j \in DOMAIN build.jobs
    /\ build.jobs[j].status = "running"
    /\ build' = [build EXCEPT !.jobs[j] = rejectedJob]
    /\ UNCHANGED <<phase, registryVars, outDirRoot, environments, resolvedConfig, disk, devVars>>

\* await Promise.all(...) resolves: createIndexContent, fs.writeFile started
AllResolved ==
    /\ phase = "build" /\ build.pc = "all"
    /\ PromiseAllResolves(build.jobs)
    /\ build' = [build EXCEPT
                   !.pc = "write",
                   !.content = createIndexContent(
                                   [j \in DOMAIN build.jobs |-> build.jobs[j].result],
                                   apiEntries)]
    /\ UNCHANGED <<phase, registryVars, outDirRoot, environments, resolvedConfig, disk, devVars>>

\* await Promise.all(...) rejects: buildApp rejects, nothing more is written
AllRejected ==
    /\ phase = "build" /\ build.pc = "all"
    /\ PromiseAllRejects(build.jobs)
    /\ build' = [build EXCEPT !.pc = "failed"]
    /\ UNCHANGED <<phase, registryVars, outDirRoot, environments, resolvedConfig, disk, devVars>>

\* fs.writeFile(<outDirRoot>/index.js) has completed
WriteFileDone ==
    /\ phase = "build" /\ build.pc = "write"
    /\ disk' = [disk EXCEPT !.index = build.content]
    /\ build' = [build EXCEPT !.pc = "done", !.writes = @ + 1]
    /\ UNCHANGED <<phase, registryVars, outDirRoot, environments, resolvedConfig, devVars>>

\* ------------------------------------------------------ development session
\* an element of the transformed template: a script (src attribute or inline
\* text) or a stylesheet link
ScriptTag(src, text) == [tag |-> "script", src |-> src, html |-> text]
LinkTag(href) == [tag |-> "link", src |-> href, html |-> ""]

\* the inline script a framework plugin injects
Preamble ==
    "import RefreshRuntime from '/@react-refresh';\nRefreshRuntime.injectIntoGlobalHook(window);"

\* what server.transformIndexHtml("/", templateHtml) can return
TransformedHtmls ==
    {<<ScriptTag("/@vite/client", "")>>,
     <<ScriptTag(Undefined, Preamble),
       LinkTag("/injected.css"),
       ScriptTag("/@vite/client", "")>>}

\* any other element of the template
OtherTag == [tag |-> "meta", src |-> Undefined, html |-> ""]

\* the elements plugins inject into the template
Tags ==
    {ScriptTag("/@vite/client", ""),
     ScriptTag("/@id/a.js", ""),
     ScriptTag(Undefined, Preamble),
     LinkTag("/injected.css"),
     OtherTag}

\* every template of at most MaxTags elements
Htmls == UNION {[1..n -> Tags] : n \in 0..MaxTags}

\* variant of extractHtmlScripts that collects the scripts in reverse order
extractHtmlScriptsMutReversed(html) ==
    LET scripts == SelectSeq(html, LAMBDA e : e.tag = "script")
    IN  [i \in DOMAIN scripts |->
            [src |-> scripts[Len(scripts) + 1 - i].src,
             content |-> scripts[Len(scripts) + 1 - i].html]]

RECURSIVE extractHtmlScripts(_)
extractHtmlScripts(html) ==
    IF html = <<>>
    THEN <<>>
    ELSE IF Head(html).tag = "script"
         THEN <<[src |-> Head(html).src, content |-> Head(html).html]>>
                  \o extractHtmlScripts(Tail(html))
         ELSE extractHtmlScripts(Tail(html))

\* a handler is a module's default export: of one target, at one code version
Handler(t, v) == [target |-> t, version |-> v]
NoHandler == Handler(Undefined, 0)

\* the response a handler returns to a request
HandlerResponse(h, url) == h.target \o "@v" \o ToString(h.version) \o " " \o url

\* the error of a failed import or a throwing handler
ErrorOf(what, t) ==
    [what |-> what, target |-> t,
     stack |-> "Error: " \o what \o " " \o t \o "\n    at " \o t]
NoError == [thrown |-> FALSE, what |-> "", target |-> "", stack |-> "", fixed |-> FALSE]

\* viteServer.ssrFixStacktrace(e) rewrites e.stack in place
ssrFixStacktrace(stack) == stack \o " (source-mapped)"

NoContext == [assets |-> [js |-> "", css |-> <<>>], apis |-> <<>>]

\* variant of moduleRunnerImport in which the router keeps the handler it
\* loaded when the session started
moduleRunnerImportMutRetained(t, src) == Handler(t, 0)

\* (await runner.import(entry)).default: the module runner evaluates the
\* current code of the entry
moduleRunnerImport(t, src) == Handler(t, src.versions[t])

\* variant of promiseAllImports that does not wait for the imports
promiseAllImportsMutNoAwait(imports) == TRUE

\* await Promise.all(apiEntries.map(([api]) => apiModules[api]())) resolves
\* once every import has resolved
promiseAllImports(imports) ==
    \A i \in DOMAIN imports : imports[i].state = "resolved"

NewRequest ==
    [pc |-> "idle", url |-> Undefined, arrived |-> <<>>, dispatched |-> Undefined,
     api |-> 0, apiFetch |-> NoHandler,
     imports |-> <<>>, ssrContext |-> NoContext, ssrFetch |-> NoHandler,
     calls |-> <<>>, listener |-> Undefined,
     endedUpstream |-> FALSE,
     writableEnded |-> FALSE, statusCode |-> 200, body |-> "",
     error |-> NoError, unhandled |-> FALSE]

\* req.url of the requests considered (always set on a server request)
Urls == {"/", "/api", "/api/admin/x"}

\* variant of apiMatches that compares the whole path
apiMatchesMutExact(url, route) == url = route

\* req.url?.startsWith(config.route)
apiMatches(url, route) == url # Undefined /\ StartsWith(url, route)

\* variant of firstMatch in which the last matching middleware keeps the request
firstMatchMutLast(url, entries) ==
    IF \E i \in DOMAIN entries : apiMatches(url, entries[i].value.route)
    THEN CHOOSE i \in DOMAIN entries :
             /\ apiMatches(url, entries[i].value.route)
             /\ \A j \in DOMAIN entries :
                    apiMatches(url, entries[j].value.route) => j <= i
    ELSE 0

\* the API middlewares are registered in apiEntries order and each calls
\* next() when its route does not match: the index of the middleware that
\* keeps the request, 0 when every one passes it on
firstMatch(url, entries) ==
    IF \E i \in DOMAIN entries : apiMatches(url, entries[i].value.route)
    THEN CHOOSE i \in DOMAIN entries :
             /\ apiMatches(url, entries[i].value.route)
             /\ \A j \in DOMAIN entries :
                    apiMatches(url, entries[j].value.route) => i <= j
    ELSE 0

\* variant of ssrContextApis that pairs each name with the next import
ssrContextApisMutShifted(entries, imports) ==
    [i \in DOMAIN entries |->
        [key |-> entries[i].key,
         value |-> imports[(i % Len(entries)) + 1].handler]]

\* apiEntries.reduce((apis, [api], index) => { apis[api] = imports[index] })
ssrContextApis(entries, imports) ==
    [i \in DOMAIN entries |->
        [key |-> entries[i].key, value |-> imports[i].handler]]

\* variant of catch that leaves the status code unset
catchMutNoStatus(req, e) ==
    [req EXCEPT !.error = [thrown |-> TRUE, what |-> e.what, target |-> e.target,
                           stack |-> ssrFixStacktrace(e.stack), fixed |-> TRUE],
                !.body = ssrFixStacktrace(e.stack),
                !.writableEnded = TRUE,
                !.pc = "done"]

\* the catch block of the ssr middleware
catch(req, e) ==
    [req EXCEPT !.error = [thrown |-> TRUE, what |-> e.what, target |-> e.target,
                           stack |-> ssrFixStacktrace(e.stack), fixed |-> TRUE],
                !.statusCode = 500,
                !.body = ssrFixStacktrace(e.stack),
                !.writableEnded = TRUE,
                !.pc = "done"]

\* an API middleware has no try/catch: the promise of the async middleware
\* rejects, nothing is written to the response and next() is not called
rejected(req, e) ==
    [req EXCEPT !.error = [thrown |-> TRUE, what |-> e.what, target |-> e.target,
                           stack |-> e.stack, fixed |-> FALSE],
                !.unhandled = TRUE,
                !.pc = "rejected"]

devTargets == {"ssr"} \cup ObjKeys(apiEntries)

\* configureServer: the injected scripts are captured, a module runner and a
\* middleware are set up per API target, the ssr middleware is registered last
ConfigureServer(html) ==
    /\ phase = "resolved"
    /\ phase' = "dev"
    /\ transformedHtml' = html
    /\ injectedScripts' = extractHtmlScripts(html)
    /\ source' = [versions |-> [t \in devTargets |-> 0], edits |-> 0]
    /\ requests' = [r \in 1..MaxRequests |-> NewRequest]
    /\ UNCHANGED <<registryVars, outDirRoot, environments, resolvedConfig,
                   buildVars, loaded, hot>>

\* the source of a target's entry is edited
Edit(t) ==
    /\ phase = "dev"
    /\ t \in devTargets
    /\ source.edits < MaxEdits
    /\ source' = [versions |-> [source.versions EXCEPT ![t] = @ + 1],
                  edits |-> source.edits + 1]
    /\ UNCHANGED <<phase, registryVars, outDirRoot, environments, resolvedConfig,
                   buildVars, injectedScripts, requests, hookVars>>

devUnchanged == <<phase, registryVars, outDirRoot, environments, resolvedConfig,
                  buildVars, injectedScripts, source, hookVars>>

\* a request arrives and runs through the API middlewares up to the first
\* await: the matching middleware starts its import, or all call next()
Request(r, url) ==
    /\ phase = "dev"
    /\ r \in DOMAIN requests
    /\ requests[r].pc = "idle"
    /\ \A q \in 1..(r - 1) : requests[q].pc # "idle"
    /\ LET i == firstMatch(url, apiEntries)
       IN  requests' = [requests EXCEPT ![r] =
               IF i > 0
               THEN [@ EXCEPT !.url = url, !.arrived = source.versions,
                              !.api = i, !.pc = "apiImport",
                              !.dispatched = apiEntries[i].key]
               ELSE [@ EXCEPT !.url = url, !.arrived = source.versions,
                              !.pc = "post"]]
    /\ UNCHANGED devUnchanged

\* await apiModules[api]() resolves with the current default export
ApiImportResolves(r) ==
    /\ phase = "dev" /\ r \in DOMAIN requests
    /\ requests[r].pc = "apiImport"
    /\ LET t == apiEntries[requests[r].api].key
       IN  requests' = [requests EXCEPT ![r] =
               [@ EXCEPT !.apiFetch = moduleRunnerImport(t, source),
                         !.listener = t,
                         !.pc = "apiInvoke"]]
    /\ UNCHANGED devUnchanged

\* await apiModules[api]() rejects
ApiImportRejects(r) ==
    /\ phase = "dev" /\ r \in DOMAIN requests
    /\ requests[r].pc = "apiImport"
    /\ requests' = [requests EXCEPT ![r] =
           rejected(@, ErrorOf("import", apiEntries[requests[r].api].key))]
    /\ UNCHANGED devUnchanged

\* getRequestListener(apiFetch)(req, res): the handler's response is written
ApiResponds(r) ==
    /\ phase = "dev" /\ r \in DOMAIN requests
    /\ requests[r].pc = "apiInvoke"
    /\ requests' = [requests EXCEPT ![r] =
           [@ EXCEPT !.body = HandlerResponse(requests[r].apiFetch, requests[r].url),
                     !.writableEnded = TRUE,
                     !.pc = "done"]]
    /\ UNCHANGED devUnchanged

\* the API handler throws
ApiThrows(r) ==
    /\ phase = "dev" /\ r \in DOMAIN requests
    /\ requests[r].pc = "apiInvoke"
    /\ requests' = [requests EXCEPT ![r] =
           rejected(@, ErrorOf("handler", requests[r].apiFetch.target))]
    /\ UNCHANGED devUnchanged

\* if (res.writableEnded) return next()
ssrSkips(res) == res.writableEnded

\* the ssr middleware, reached after the server's own middlewares;
\* writableEnded is res.writableEnded as those left it
SsrMiddleware(r, writableEnded) ==
    /\ phase = "dev" /\ r \in DOMAIN requests
    /\ requests[r].pc = "post"
    /\ requests' = [requests EXCEPT ![r] =
           IF ssrSkips([writableEnded |-> writableEnded])
           THEN [@ EXCEPT !.endedUpstream = writableEnded,
                          !.writableEnded = writableEnded,
                          !.pc = "next"]
           ELSE [@ EXCEPT !.endedUpstream = writableEnded,
                          !.writableEnded = writableEnded,
                          !.dispatched = "ssr",
                          !.imports = [i \in DOMAIN apiEntries |->
                                          [state |-> "pending", handler |-> NoHandler]],
                          !.pc = "imports"]]
    /\ UNCHANGED devUnchanged

\* one of the imports of Promise.all(apiEntries.map(...)) resolves
SsrApiImportResolves(r, i) ==
    /\ phase = "dev" /\ r \in DOMAIN requests
    /\ requests[r].pc = "imports"
    /\ i \in DOMAIN requests[r].imports
    /\ requests[r].imports[i].state = "pending"
    /\ LET t == apiEntries[i].key
       IN  requests' = [requests EXCEPT ![r].imports[i] =
               [state |-> "resolved", handler |-> moduleRunnerImport(t, source)]]
    /\ UNCHANGED devUnchanged

\* one of the imports rejects: Promise.all rejects, the catch block runs
SsrApiImportRejects(r, i) ==
    /\ phase = "dev" /\ r \in DOMAIN requests
    /\ requests[r].pc = "imports"
    /\ i \in DOMAIN requests[r].imports
    /\ requests[r].imports[i].state = "pending"
    /\ requests' = [requests EXCEPT ![r] =
           catch([@ EXCEPT !.imports[i].state = "rejected"],
                 ErrorOf("import", apiEntries[i].key))]
    /\ UNCHANGED devUnchanged

\* Promise.all has resolved: ssrContext is built, the ssr import is started
SsrContext(r) ==
    /\ phase = "dev" /\ r \in DOMAIN requests
    /\ requests[r].pc = "imports"
    /\ promiseAllImports(requests[r].imports)
    /\ requests' = [requests EXCEPT ![r] =
           [@ EXCEPT !.ssrContext =
                         [assets |-> [js |-> "/@client-entry", css |-> <<>>],
                          apis |-> ssrContextApis(apiEntries, requests[r].imports)],
                     !.pc = "ssrImport"]]
    /\ UNCHANGED devUnchanged

\* await ssrRunner.import(resolvedOptions.ssr.entry) resolves
SsrImportResolves(r) ==
    /\ phase = "dev" /\ r \in DOMAIN requests
    /\ requests[r].pc = "ssrImport"
    /\ requests' = [requests EXCEPT ![r] =
           [@ EXCEPT !.ssrFetch = moduleRunnerImport("ssr", source),
                     !.listener = "ssr",
                     !.pc = "ssrInvoke"]]
    /\ UNCHANGED devUnchanged

\* await ssrRunner.import(...) rejects
SsrImportRejects(r) ==
    /\ phase = "dev" /\ r \in DOMAIN requests
    /\ requests[r].pc = "ssrImport"
    /\ requests' = [requests EXCEPT ![r] = catch(@, ErrorOf("import", "ssr"))]
    /\ UNCHANGED devUnchanged

\* the running ssr handler calls ctx.apis[k](request)
SsrCallsApi(r, k) ==
    /\ phase = "dev" /\ r \in DOMAIN requests
    /\ requests[r].pc = "ssrInvoke"
    /\ ObjHas(requests[r].ssrContext.apis, k)
    /\ \A c \in DOMAIN requests[r].calls : requests[r].calls[c].api # k
    /\ LET h == ObjGet(requests[r].ssrContext.apis, k)
       IN  requests' = [requests EXCEPT ![r].calls =
               Append(@, [api |-> k, handler |-> h,
                          response |-> HandlerResponse(h, requests[r].url)])]
    /\ UNCHANGED devUnchanged

\* the ssr handler returns its response, which is written
SsrResponds(r) ==
    /\ phase = "dev" /\ r \in DOMAIN requests
    /\ requests[r].pc = "ssrInvoke"
    /\ requests' = [requests EXCEPT ![r] =
           [@ EXCEPT !.body = HandlerResponse(requests[r].ssrFetch, requests[r].url),
                     !.writableEnded = TRUE,
                     !.pc = "done"]]
    /\ UNCHANGED devUnchanged

\* the ssr handler throws
SsrThrows(r) ==
    /\ phase = "dev" /\ r \in DOMAIN requests
    /\ requests[r].pc = "ssrInvoke"
    /\ requests' = [requests EXCEPT ![r] = catch(@, ErrorOf("handler", "ssr"))]
    /\ UNCHANGED devUnchanged

\* ------------------------------------------------- virtual client entry
\* `${x}` of a template literal
TemplateString(x) == IF x = Undefined THEN "undefined" ELSE x

\* resolveId(id)
resolveId(id) == IF id = "/@client-entry" THEN "\\0virtual:@client-entry" ELSE Undefined

\* script.content || `import "${script.src}";`
scriptStatement(script) ==
    IF script.content # ""
    THEN script.content
    ELSE "import \"" \o TemplateString(script.src) \o "\";"

\* variant of clientEntryContent that puts the client entry first
clientEntryContentMutEntryFirst(scripts, base, entry) ==
    <<"await import(\"" \o TemplateString(base) \o entry \o "\");">>
        \o [i \in DOMAIN scripts |-> scriptStatement(scripts[i])]

\* the lines of the virtual module: injectedScripts.map(...).join("\n"), then
\* await import("<base><client entry>")
clientEntryContent(scripts, base, entry) ==
    [i \in DOMAIN scripts |-> scriptStatement(scripts[i])]
        \o <<"await import(\"" \o TemplateString(base) \o entry \o "\");">>

\* load(id): the virtual module's lines, or no code for any other id
load(id) ==
    IF id = "\\0virtual:@client-entry"
    THEN clientEntryContent(injectedScripts, resolvedConfig.base,
                            resolvedOptions.client.entry)
    ELSE <<>>

\* the ids the development server is asked for
ModuleIds == {"/@client-entry", "/src/main.ts"}

\* the development server resolves and loads a module for the client
Load(id) ==
    /\ phase = "dev"
    /\ loaded' = [id |-> id, resolved |-> resolveId(id),
                  code |-> IF resolveId(id) = Undefined THEN <<>>
                           ELSE load(resolveId(id))]
    /\ UNCHANGED <<phase, registryVars, outDirRoot, environments, resolvedConfig,
                   buildVars, injectedScripts, source, requests,
                   transformedHtml, hot>>

\* ------------------------------------------------------------- hot update
\* variant of hotUpdate that reloads the client whatever the environment
hotUpdateMutAnyEnvironment(environmentName, modulesLength) ==
    IF modulesLength > 0
    THEN <<[type |-> "full-reload"]>>
    ELSE <<>>

\* the messages hotUpdate sends on ctx.server.environments.client.hot
hotUpdate(environmentName, modulesLength) ==
    IF environmentName = "ssr" /\ modulesLength > 0
    THEN <<[type |-> "full-reload"]>>
    ELSE <<>>

\* the hotUpdate hook runs for one environment with the modules of that
\* environment's graph the changed file belongs to
HotUpdate(environmentName, modulesLength) ==
    /\ phase = "dev"
    /\ Len(hot) < MaxNotifications
    /\ ObjHas(environments, environmentName)
    /\ hot' = Append(hot, [environment |-> environmentName,
                           modules |-> modulesLength,
                           sent |-> hotUpdate(environmentName, modulesLength)])
    /\ UNCHANGED <<phase, registryVars, outDirRoot, environments, resolvedConfig,
                   buildVars, injectedScripts, source, requests,
                   transformedHtml, loaded>>

\* ------------------------------------------------------------ specifications
Init == InitWith(SessionOptions)

InitRegistry == InitWith(RegistryOptions)

NextRegistry == \E d \in UserOutDirs : Config(d)

NextBuild ==
    \/ BuildApp
    \/ RmDone
    \/ \E j \in 1..(MaxApis + 2) : BuildResolves(j)
    \/ \E j \in 1..(MaxApis + 2) : BuildRejects(j)
    \/ AllResolved
    \/ AllRejected
    \/ WriteFileDone

NextDev ==
    \/ \E h \in TransformedHtmls : ConfigureServer(h)
    \/ \E t \in {"ssr"} \cup ApiNames : Edit(t)
    \/ \E r \in 1..MaxRequests, u \in Urls : Request(r, u)
    \/ \E r \in 1..MaxRequests : ApiImportResolves(r)
    \/ \E r \in 1..MaxRequests : ApiImportRejects(r)
    \/ \E r \in 1..MaxRequests : ApiResponds(r)
    \/ \E r \in 1..MaxRequests : ApiThrows(r)
    \/ \E r \in 1..MaxRequests, e \in BOOLEAN : SsrMiddleware(r, e)
    \/ \E r \in 1..MaxRequests, i \in 1..MaxApis : SsrApiImportResolves(r, i)
    \/ \E r \in 1..MaxRequests, i \in 1..MaxApis : SsrApiImportRejects(r, i)
    \/ \E r \in 1..MaxRequests : SsrContext(r)
    \/ \E r \in 1..MaxRequests : SsrImportResolves(r)
    \/ \E r \in 1..MaxRequests : SsrImportRejects(r)
    \/ \E r \in 1..MaxRequests, k \in ApiNames : SsrCallsApi(r, k)
    \/ \E r \in 1..MaxRequests : SsrResponds(r)
    \/ \E r \in 1..MaxRequests : SsrThrows(r)

Next ==
    \/ \E d \in SessionOutDirs : Config(d)
    \/ \E b \in SessionBases : ConfigResolved(b)
    \/ NextBuild
    \/ NextDev

Spec == Init /\ [][Next]_vars

SpecRegistry == InitRegistry /\ [][NextRegistry]_vars

\* the hooks that capture the injected scripts and serve the virtual client
\* entry, over every transformed template
InitClientEntry == InitWith(ClientEntryOptions)

NextClientEntry ==
    \/ \E d \in SessionOutDirs : Config(d)
    \/ \E b \in Bases : ConfigResolved(b)
    \/ \E h \in Htmls : ConfigureServer(h)
    \/ \E id \in ModuleIds : Load(id)

SpecClientEntry == InitClientEntry /\ [][NextClientEntry]_vars

\* the hotUpdate hook during a development session
InitHotUpdate == InitWith(HotUpdateOptions)

NextHotUpdate ==
    \/ \E d \in SessionOutDirs : Config(d)
    \/ \E b \in SessionBases : ConfigResolved(b)
    \/ \E h \in TransformedHtmls : ConfigureServer(h)
    \/ \E e \in {"client", "ssr"} \cup ApiNames, n \in 0..MaxModules :
           HotUpdate(e, n)

SpecHotUpdate == InitHotUpdate /\ [][NextHotUpdate]_vars

\* ------------------------------------------------------------------ claims
\* the requests the router has taken a decision on
Decided(r) == requests[r].pc \notin {"idle", "post"}

\* the indices of the API targets whose route prefix the request path starts with
MatchingApis(r) ==
    {i \in DOMAIN apiEntries :
        /\ requests[r].url # Undefined
        /\ StartsWith(requests[r].url, apiEntries[i].value.route)}

DevRequests == IF phase = "dev" THEN DOMAIN requests ELSE {}

\* dispatched to an API target whose prefix matches, and never to the ssr handler
ToApiOnly(r) ==
    /\ \E i \in MatchingApis(r) : requests[r].dispatched = apiEntries[i].key
    /\ requests[r].ssrFetch = NoHandler
    /\ requests[r].listener # "ssr"

\* dispatched to the ssr handler, no API handler being the top-level responder
ToSsrOnly(r) ==
    /\ requests[r].dispatched = "ssr"
    /\ requests[r].apiFetch = NoHandler
    /\ requests[r].listener \in {Undefined, "ssr"}

\* C1 as stated: every request whose path starts with some API target's route
\* prefix is dispatched to an API target's handler and never to the ssr
\* handler, and every other request is dispatched to the ssr handler and to no
\* API handler as the top-level responder.
C1_Original ==
    \A r \in DevRequests :
        Decided(r) =>
            IF MatchingApis(r) # {} THEN ToApiOnly(r) ELSE ToSsrOnly(r)

\* C1 as amended: a request whose path starts with some API target's route
\* prefix is dispatched to an API target's handler and never to the ssr
\* handler; a request whose path starts with no route prefix is dispatched to
\* the ssr handler, and to no API handler as the top-level responder, unless
\* its response had already been ended when it reached the ssr middleware, in
\* which case it is passed on and no handler of this router answers it.
C1_Dispatch ==
    \A r \in DevRequests :
        Decided(r) =>
            IF MatchingApis(r) # {}
            THEN ToApiOnly(r)
            ELSE IF requests[r].endedUpstream
                 THEN /\ requests[r].pc = "next"
                      /\ requests[r].dispatched = Undefined
                      /\ requests[r].listener = Undefined
                 ELSE ToSsrOnly(r)

\* a request to "/" has been answered by the ssr handler while the
\* configuration declares API targets
C1_Witness ==
    \E r \in DevRequests :
        /\ apiEntries # <<>>
        /\ requests[r].url = "/"
        /\ requests[r].pc = "done"
        /\ requests[r].listener = "ssr"
        /\ requests[r].statusCode = 200

\* C2: when the request path starts with the route prefixes of several API
\* targets, the handler loaded and invoked is that of the API target declared
\* earliest, whatever the prefix lengths; no other API target is loaded as
\* responder or invoked, and with /api declared before /api/admin a request
\* to /api/admin/x is answered by the /api target.
C2_FirstMatchWins ==
    \A r \in DevRequests :
        (Decided(r) /\ MatchingApis(r) # {}) =>
            LET first == CHOOSE i \in MatchingApis(r) :
                             \A j \in MatchingApis(r) : i <= j
                winner == apiEntries[first].key
            IN  /\ requests[r].dispatched = winner
                /\ winner = options.apis[first].key
                /\ requests[r].apiFetch.target \in {Undefined, winner}
                /\ requests[r].listener \in {Undefined, winner}
                /\ requests[r].imports = <<>>
                /\ (/\ Len(apiEntries) = 2
                    /\ apiEntries[1].value.route = "/api"
                    /\ apiEntries[2].value.route = "/api/admin"
                    /\ requests[r].url = "/api/admin/x")
                   => requests[r].dispatched = apiEntries[1].key

\* with /api declared before /api/admin, a request to /api/admin/x has been
\* answered by the /api target's handler
C2_Witness ==
    \E r \in DevRequests :
        /\ Len(apiEntries) = 2
        /\ apiEntries[1].value.route = "/api"
        /\ apiEntries[2].value.route = "/api/admin"
        /\ requests[r].url = "/api/admin/x"
        /\ requests[r].pc = "done"
        /\ requests[r].apiFetch.target = apiEntries[1].key
        /\ requests[r].body = HandlerResponse(requests[r].apiFetch, "/api/admin/x")

C4_ApiErrorIs500 ==
    \A r \in DevRequests :
        (requests[r].error.thrown /\ requests[r].api > 0) =>
            /\ requests[r].writableEnded
            /\ requests[r].statusCode = 500
            /\ requests[r].body = requests[r].error.stack
            /\ ~requests[r].unhandled

\* the requests whose ssr handler has been invoked
SsrInvoked(r) == requests[r].dispatched = "ssr" /\ requests[r].ssrFetch # NoHandler

\* C5: the context passed to the ssr handler has an apis map whose keys are
\* exactly the declared API names; apis[name] is the handler loaded from API
\* target name, so a call returns what that target's handler returns for the
\* request, and the call does not pass through the router's API middlewares.
C5_ContextApis ==
    \A r \in DevRequests :
        SsrInvoked(r) =>
            /\ ObjKeys(requests[r].ssrContext.apis) = ObjKeys(options.apis)
            /\ Len(requests[r].ssrContext.apis) = Len(options.apis)
            /\ \A k \in ObjKeys(options.apis) :
                  LET h == ObjGet(requests[r].ssrContext.apis, k)
                  IN  /\ h.target = k
                      /\ h.version <= source.versions[k]
            /\ \A c \in DOMAIN requests[r].calls :
                  LET call == requests[r].calls[c]
                  IN  /\ call.handler.target = call.api
                      /\ call.response =
                            HandlerResponse(Handler(call.api, call.handler.version),
                                            requests[r].url)
            /\ requests[r].api = 0
            /\ requests[r].apiFetch = NoHandler

\* an ssr handler has called both declared API targets through its context
\* and has answered
C5_Witness ==
    \E r \in DevRequests :
        /\ SsrInvoked(r)
        /\ Len(requests[r].calls) = 2
        /\ requests[r].pc = "done"
        /\ requests[r].statusCode = 200

\* C6: the manifest module is written only after every build job has
\* succeeded; once a build job has failed the build cannot pass Promise.all
\* and the output root holds no manifest module.
C6_ManifestAfterAllJobs ==
    phase = "build" =>
        /\ (build.pc \in {"write", "done"} \/ build.writes > 0)
              => /\ Len(build.jobs) = 2 + Len(options.apis)
                 /\ \A j \in DOMAIN build.jobs : build.jobs[j].status = "ok"
        /\ (build.pc \notin {"idle", "rm"} /\ disk.index # <<>>)
              => build.writes > 0
        /\ (\E j \in DOMAIN build.jobs : build.jobs[j].status = "failed")
              => /\ build.pc \in {"all", "failed"}
                 /\ build.writes = 0
                 /\ disk.index = <<>>

\* the manifest module of a configuration with API targets has been written
C6_Witness ==
    /\ phase = "build"
    /\ build.pc = "done"
    /\ apiEntries # <<>>
    /\ disk.index = build.content
    /\ disk.index # <<>>

\* the route prefix API target i is declared with
DeclaredRoute(i) ==
    LET c == options.apis[i]
    IN  IF c.value.type = "object" /\ Truthy(c.value.route)
        THEN c.value.route
        ELSE "/" \o c.key

CollidingRoutes ==
    \E i, j \in DOMAIN options.apis : i # j /\ DeclaredRoute(i) = DeclaredRoute(j)

NameClash == \E i \in DOMAIN options.apis : options.apis[i].key \in {"client", "ssr"}

\* C7: a configuration in which two API targets resolve to the same route
\* prefix, or in which an API target has the name of the client or ssr
\* target, is rejected when the plugin is created: no plugin exists for it
\* and no environment is produced from it.
C7_InvalidRejected ==
    (CollidingRoutes \/ NameClash) => phase \notin {"created", "configured"}

\* C8: the environment map has one distinct environment per declared target
\* (client, ssr, one per API), their output directories are pairwise
\* distinct, and the client and ssr environments are those of the client and
\* ssr entries.
C8_OneEnvironmentPerTarget ==
    phase = "configured" =>
        /\ Len(environments) = 2 + Len(options.apis)
        /\ \A i, j \in DOMAIN environments :
              i # j => /\ environments[i].key # environments[j].key
                       /\ environments[i].value.outDir # environments[j].value.outDir
        /\ ObjHas(environments, "client")
        /\ ObjGet(environments, "client").input = PathResolve(options.client.entry)
        /\ ObjGet(environments, "client").outDir = outDirRoot \o "/client"
        /\ ObjHas(environments, "ssr")
        /\ ObjGet(environments, "ssr").input = PathResolve(options.ssr.entry)

\* C9: each declared API target has exactly one descriptor, in declaration
\* order, whose entry is the configured entry path and whose route prefix is
\* the configured route when one is given (a non-empty string) and /<name>
\* otherwise, for the bare-string form and for the object form alike.
C9_Descriptors ==
    /\ Len(apiEntries) = Len(options.apis)
    /\ \A i \in DOMAIN options.apis :
          LET name == options.apis[i].key
              c == options.apis[i].value
              d == apiEntries[i]
          IN  /\ d.key = name
              /\ d.value.entry = c.entry
              /\ c.type = "string" => d.value.route = "/" \o name
              /\ (c.type = "object" /\ c.route \in {Undefined, ""})
                    => d.value.route = "/" \o name
              /\ (c.type = "object" /\ c.route \notin {Undefined, ""})
                    => d.value.route = c.route
    /\ \A i, j \in DOMAIN apiEntries : i # j => apiEntries[i].key # apiEntries[j].key

\* a bare-string API target and an API target with a configured route have
\* been resolved, in that order
C9_Witness ==
    /\ Len(apiEntries) = 2
    /\ options.apis[1].value.type = "string"
    /\ apiEntries[1].value.route = "/" \o apiEntries[1].key
    /\ options.apis[2].value.route = "/api/admin"
    /\ apiEntries[2].value.route = "/api/admin"
    /\ apiEntries[2].key = "api"

\* the environment a target is declared to get: its override applied to its
\* base environment when it has one, its base environment otherwise
DeclaredEnvironment(c, base) ==
    IF c.type = "object" /\ c.environment # Undefined
          /\ CallEnvironment(c.environment, base).defined
    THEN CallEnvironment(c.environment, base).value
    ELSE base

\* C10: the environment registered for every target (client, ssr, each API
\* target) is its `environment` override applied to its base environment when
\* it is declared with one, and its base environment otherwise.
C10_OverrideApplied ==
    (phase = "configured" /\ ~NameClash) =>
        /\ ObjGet(environments, "client") =
              DeclaredEnvironment(options.client,
                                  clientEnvironment(outDirRoot, options.client.entry))
        /\ ObjGet(environments, "ssr") =
              DeclaredEnvironment(options.ssr,
                                  ssrEnvironment(outDirRoot, options.ssr.entry))
        /\ \A i \in DOMAIN options.apis :
              LET name == options.apis[i].key
                  c == options.apis[i].value
              IN  ObjGet(environments, name) =
                      DeclaredEnvironment(c, apiEnvironment(outDirRoot, name, c.entry))

\* the manifest module has been written by a completed production build
ManifestWritten == phase = "build" /\ build.pc = "done"

\* the declared API names, in declaration order
DeclaredNames == [i \in DOMAIN options.apis |-> options.apis[i].key]

\* the line of the manifest module that exports the given names
ExportLine(names) == "export { " \o Join(names, ", ") \o " };"

\* the manifest module's function ssrWithContext calls the ssr handler, which
\* is the default export of the ssr target's output, with the request and
\* the context value the module exports
WrapperCallsSsr ==
    /\ disk.index[1] = "import ssr from './ssr/"
                           \o build.jobs[2].result.output[1].fileName \o "';"
    /\ disk.index[Len(DeclaredNames) + 2] =
          "async function ssrWithContext(request) { return ssr(request, ssrContext); }"
    /\ disk.index[Len(DeclaredNames) + 3] = "const ssrContext = {"

\* C11 as stated: the manifest module exports exactly ssrHandler,
\* ssrWithContext and context, plus one export per declared API target under
\* its registered name, and ssrWithContext(request) calls the ssr handler
\* with the request and the exported context value.
C11_Original ==
    ManifestWritten =>
        /\ disk.index[Len(disk.index)] =
              ExportLine(<<"ssrHandler", "ssrWithContext", "context">> \o DeclaredNames)
        /\ WrapperCallsSsr

\* C11 as amended: the manifest module exports exactly ssr, ssrWithContext
\* and ssrContext, plus one export per declared API target under its
\* registered name, and ssrWithContext(request) calls the ssr handler with
\* the request and the exported context value.
C11_Exports ==
    ManifestWritten =>
        /\ disk.index[Len(disk.index)] =
              ExportLine(<<"ssr", "ssrWithContext", "ssrContext">> \o DeclaredNames)
        /\ \A l \in 1..(Len(disk.index) - 1) : ~StartsWith(disk.index[l], "export")
        /\ WrapperCallsSsr

\* the manifest module of a configuration with two API targets is on disk
C11_Witness ==
    /\ ManifestWritten
    /\ Len(DeclaredNames) = 2
    /\ disk.index[Len(disk.index)] =
          "export { ssr, ssrWithContext, ssrContext, admin, api };"

\* the output files of the client target flagged as build entries
ClientEntryChunks ==
    {c \in DOMAIN build.jobs[1].result.output :
        build.jobs[1].result.output[c].isEntry}

\* C12: the asset manifest embedded in the manifest module references only
\* the client target's entry output: assets.js is "/" followed by the file
\* name of the client target's compiled entry chunk, assets.css is, in
\* order, "/" followed by each stylesheet of that entry chunk, and it is
\* empty when the entry chunk has no stylesheet.
C12_EntryAssets ==
    ManifestWritten =>
        \E c \in ClientEntryChunks :
            LET entry == build.jobs[1].result.output[c]
            IN  /\ ClientEntryChunks = {c}
                /\ entry.fileName = EntryFileName(ObjGet(environments, "client"))
                /\ disk.index[Len(DeclaredNames) + 4] =
                      "  assets: {\"js\":\"/" \o entry.fileName \o "\",\"css\":["
                          \o Join([i \in DOMAIN entry.importedCss |->
                                      "\"/" \o entry.importedCss[i] \o "\""], ",")
                          \o "]},"
                /\ (entry.importedCss = <<>>) =>
                      disk.index[Len(DeclaredNames) + 4] =
                          "  assets: {\"js\":\"/" \o entry.fileName \o "\",\"css\":[]},"

\* a manifest module is on disk whose client build emitted a stylesheet for
\* its entry chunk and a further chunk that is no entry
C12_Witness ==
    /\ ManifestWritten
    /\ Len(build.jobs[1].result.output) = 2
    /\ build.jobs[1].result.output[1].importedCss # <<>>
    /\ disk.index[Len(DeclaredNames) + 4] =
          "  assets: {\"js\":\"/c-a1b2.js\",\"css\":[\"/assets/style-a1b2.css\"]},"

\* the number of full-reload signals a source-change notification sent
FullReloads(n) ==
    Cardinality({m \in DOMAIN n.sent : n.sent[m].type = "full-reload"})

\* C13: a source-change notification delivered for the ssr target's
\* environment with at least one changed module sends exactly one full-reload
\* signal to the client development session; a notification delivered for
\* the client target's or an API target's environment, or one that carries
\* no changed module, sends none.
C13_FullReload ==
    \A i \in DOMAIN hot :
        /\ hot[i].environment \in ObjKeys(environments)
        /\ IF hot[i].environment = "ssr" /\ hot[i].modules >= 1
           THEN FullReloads(hot[i]) = 1 /\ Len(hot[i].sent) = 1
           ELSE hot[i].sent = <<>>

\* a change of the ssr target's graph has sent its full-reload signal and a
\* change of an API target's graph has sent none
C13_Witness ==
    /\ \E i \in DOMAIN hot :
          /\ hot[i].environment = "ssr" /\ hot[i].modules > 0
          /\ FullReloads(hot[i]) = 1
    /\ \E i \in DOMAIN hot :
          /\ hot[i].environment = "api" /\ hot[i].modules > 0
          /\ FullReloads(hot[i]) = 0

\* the script elements and the stylesheet links of the transformed template,
\* in document order
ScriptElements == SelectSeq(transformedHtml, LAMBDA e : e.tag = "script")
LinkElements == SelectSeq(transformedHtml, LAMBDA e : e.tag = "link")

\* the hrefs of the stylesheet links plugins inject
Hrefs == {t.src : t \in {e \in Tags : e.tag = "link"}}

\* the path references the extractor returned, in order: those of
\* stylesheets, and those of scripts
StylePathRefs == SelectSeq(injectedScripts, LAMBDA a : a.src \in Hrefs)
ScriptPathRefs ==
    SelectSeq(injectedScripts, LAMBDA a : a.src # Undefined /\ a.src \notin Hrefs)

\* the content references the extractor returned, in order
ContentRefs == SelectSeq(injectedScripts, LAMBDA a : a.src = Undefined)

\* the extractor has been applied to the transformed template
Extracted == phase = "dev"

\* C14 as stated: from markup with N <script src=X> tags and M
\* <link rel=stylesheet href=Y> tags the extractor returns exactly N
\* script-path references in document order and M style-path references in
\* document order; a script without src yields a content reference carrying
\* its inline text verbatim; markup with no script or style tags yields
\* empty lists.
C14_Original ==
    Extracted =>
        /\ [i \in DOMAIN ScriptPathRefs |-> ScriptPathRefs[i].src]
              = [i \in DOMAIN SelectSeq(ScriptElements, LAMBDA e : e.src # Undefined) |->
                    SelectSeq(ScriptElements, LAMBDA e : e.src # Undefined)[i].src]
        /\ [i \in DOMAIN StylePathRefs |-> StylePathRefs[i].src]
              = [i \in DOMAIN LinkElements |-> LinkElements[i].src]
        /\ [i \in DOMAIN ContentRefs |-> ContentRefs[i].content]
              = [i \in DOMAIN SelectSeq(ScriptElements, LAMBDA e : e.src = Undefined) |->
                    SelectSeq(ScriptElements, LAMBDA e : e.src = Undefined)[i].html]
        /\ (ScriptElements = <<>> /\ LinkElements = <<>>) => injectedScripts = <<>>

\* C14 as amended: from markup with N <script> tags the extractor returns
\* exactly N references, one per script tag in document order: a script with
\* src yields a script-path reference to that src, a script without src
\* yields a content reference carrying its inline text verbatim; stylesheet
\* links yield no reference; markup with no script tags yields an empty
\* list.
C14_Scripts ==
    Extracted =>
        /\ Len(injectedScripts) = Len(ScriptElements)
        /\ \A i \in DOMAIN ScriptElements :
              /\ injectedScripts[i].src = ScriptElements[i].src
              /\ injectedScripts[i].content = ScriptElements[i].html
        /\ StylePathRefs = <<>>
        /\ ScriptElements = <<>> => injectedScripts = <<>>

\* a template with an inline script followed by a script with src has been
\* extracted from
C14_Witness ==
    /\ Extracted
    /\ Len(transformedHtml) = 2
    /\ transformedHtml[1].tag = "script" /\ transformedHtml[1].src = Undefined
    /\ transformedHtml[2].tag = "script" /\ transformedHtml[2].src = "/@vite/client"
    /\ Len(injectedScripts) = 2
    /\ injectedScripts[1].content = Preamble
    /\ injectedScripts[2].src = "/@vite/client"

\* the virtual client entry has been served
ClientEntryLoaded == phase = "dev" /\ loaded.resolved = "\\0virtual:@client-entry"

\* a line that is one import statement
IsImport(line) ==
    /\ StartsWith(line, "import ")
    /\ \A k \in 1..Len(line) : SubSeq(line, k, k) # "\n"

\* the dynamic import of the real client entry
ImportsClientEntry(line) ==
    line = "await import(\"" \o resolvedConfig.base \o options.client.entry \o "\");"

\* the captured list is written at session start, before any request or
\* module load is served, and holds what was captured ever after
WrittenOnce ==
    /\ phase # "dev" => injectedScripts = <<>> /\ loaded = NotLoaded /\ requests = <<>>
    /\ phase = "dev" =>
          /\ Len(injectedScripts) = Len(ScriptElements)
          /\ \A i \in DOMAIN ScriptElements :
                /\ injectedScripts[i].src = ScriptElements[i].src
                /\ injectedScripts[i].content = ScriptElements[i].html

\* C19 as stated: the virtual client entry consists of one import per
\* injected asset captured at session start, in the captured order, followed
\* last by a dynamic import of the real client entry; the list it reads is
\* written once at session start and never mutated afterwards.
C19_Original ==
    /\ WrittenOnce
    /\ ClientEntryLoaded =>
          /\ Len(loaded.code) = Len(ScriptElements) + 1
          /\ \A i \in DOMAIN ScriptElements : IsImport(loaded.code[i])
          /\ \A i \in DOMAIN ScriptElements :
                ScriptElements[i].src # Undefined =>
                    loaded.code[i] = "import \"" \o ScriptElements[i].src \o "\";"
          /\ ImportsClientEntry(loaded.code[Len(loaded.code)])

\* C19 as amended: the virtual client entry consists of one entry per
\* injected script captured at session start, in the captured order with
\* none dropped, duplicated or reordered: the inline text of a script that
\* has one, verbatim, and otherwise an import of the script's src; these are
\* followed last by a dynamic import of the real client entry; the list it
\* reads is written once at session start and never mutated afterwards.
C19_ClientEntry ==
    /\ WrittenOnce
    /\ ClientEntryLoaded =>
          /\ Len(loaded.code) = Len(ScriptElements) + 1
          /\ \A i \in DOMAIN ScriptElements :
                loaded.code[i] =
                    IF ScriptElements[i].html # ""
                    THEN ScriptElements[i].html
                    ELSE "import \"" \o ScriptElements[i].src \o "\";"
          /\ ImportsClientEntry(loaded.code[Len(loaded.code)])

\* the virtual client entry of a session that captured an inline script and
\* a script with src has been served under a public base path
C19_Witness ==
    /\ ClientEntryLoaded
    /\ resolvedConfig.base = "/app/"
    /\ loaded.code = <<Preamble,
                       "import \"/@vite/client\";",
                       "await import(\"/app/src/main.ts\");">>

\* the ssr handler of request r has called the API target of import i
Called(r, i) ==
    \E c \in DOMAIN requests[r].calls : requests[r].calls[c].api = apiEntries[i].key

\* C15: during a request dispatched to the ssr handler an API target's
\* handler is loaded only when the ssr handler calls apis[name]: a request
\* whose ssr handler calls no API performs no API load, and the load failure
\* of an API target the ssr handler never calls does not affect the response.
C15_LazyApiLoad ==
    \A r \in DevRequests :
        (requests[r].dispatched = "ssr" /\ requests[r].pc = "done") =>
            \A i \in DOMAIN requests[r].imports :
                ~Called(r, i) =>
                    /\ requests[r].imports[i].state # "resolved"
                    /\ requests[r].imports[i].state = "rejected" =>
                          /\ ~requests[r].error.thrown
                          /\ requests[r].statusCode # 500

\* C16: every API handler the ssr handler calls through the context was
\* loaded successfully during the same request before the ssr handler was
\* invoked; the ssr handler is never invoked with a context entry whose load
\* is pending or has failed.
C16_LoadedBeforeInvoke ==
    \A r \in DevRequests :
        SsrInvoked(r) =>
            /\ Len(requests[r].imports) = Len(apiEntries)
            /\ \A i \in DOMAIN apiEntries :
                  /\ requests[r].imports[i].state = "resolved"
                  /\ requests[r].imports[i].handler # NoHandler
                  /\ requests[r].imports[i].handler.target = apiEntries[i].key
                  /\ requests[r].imports[i].handler.version
                        >= requests[r].arrived[apiEntries[i].key]
                  /\ ObjGet(requests[r].ssrContext.apis, apiEntries[i].key)
                        = requests[r].imports[i].handler
            /\ \A c \in DOMAIN requests[r].calls :
                  \E i \in DOMAIN apiEntries :
                      /\ apiEntries[i].key = requests[r].calls[c].api
                      /\ requests[r].calls[c].handler = requests[r].imports[i].handler

\* a running ssr handler has called one of the two API targets the request
\* loaded
C16_Witness ==
    \E r \in DevRequests :
        /\ SsrInvoked(r)
        /\ requests[r].pc = "ssrInvoke"
        /\ Len(requests[r].imports) = 2
        /\ Len(requests[r].calls) = 1

\* handler h was loaded from the code that was current when request r
\* arrived, or from a later edit of it
LoadedAfterArrival(r, h) ==
    /\ h.target \in DOMAIN requests[r].arrived
    /\ h.version >= requests[r].arrived[h.target]
    /\ h.version <= source.versions[h.target]

StartedTogetherAfterRm ==
    /\ build.emptied <= 1
    /\ build.pc \in {"idle", "rm"} => build.jobs = <<>> /\ build.emptied = 0
    /\ build.jobs # <<>> =>
          /\ Len(build.jobs) = 2 + Len(DeclaredNames)
          /\ build.emptied = 1
          /\ "dist/stale" \notin disk.dirs
          /\ disk.dirs \subseteq
                {ObjGet(environments, buildTargets[j]).outDir : j \in DOMAIN build.jobs}

\* the build phase has finished, with success or with failure
BuildFinished == phase = "build" /\ build.pc \in {"write", "done", "failed"}

\* C18 as stated: the build jobs of the client, the ssr and every API target
\* are started concurrently and awaited jointly: the build phase finishes,
\* with success or with failure, only after every target's job has finished,
\* and the output root is emptied once, before any job starts, never while a
\* job is running.
C18_Original ==
    phase = "build" =>
        /\ StartedTogetherAfterRm
        /\ BuildFinished =>
              \A j \in DOMAIN build.jobs : build.jobs[j].status # "running"

\* C18 as amended: the build jobs of the client, the ssr and every API
\* target are started concurrently and awaited jointly, failing fast: the
\* build phase finishes with success only after every target's job has
\* succeeded, and finishes with failure once some job has failed, possibly
\* while other jobs are still running; the output root is emptied once,
\* before any job starts, never while a job is running.
C18_FailFast ==
    phase = "build" =>
        /\ StartedTogetherAfterRm
        /\ build.pc \in {"write", "done"} =>
              \A j \in DOMAIN build.jobs : build.jobs[j].status = "ok"
        /\ build.pc = "failed" =>
              \E j \in DOMAIN build.jobs : build.jobs[j].status = "failed"

\* the build phase has finished with failure while the job of another
\* target is still running
C18_Witness ==
    /\ phase = "build"
    /\ build.pc = "failed"
    /\ \E j \in DOMAIN build.jobs : build.jobs[j].status = "running"
    /\ \E j \in DOMAIN build.jobs : build.jobs[j].status = "ok"

\* C20: in the manifest module every API target name is bound to the
\* compiled output of that same target: the import of name points into
\* directory ./<name>/ at the entry file name the build job of target name
\* produced, whatever order the build jobs completed in.
C20_ApiBinding ==
    ManifestWritten =>
        \A i \in DOMAIN DeclaredNames :
            LET name == DeclaredNames[i]
                env == ObjGet(environments, name)
                job == CHOOSE j \in DOMAIN build.jobs : buildTargets[j] = name
            IN  /\ env.outDir = outDirRoot \o "/" \o name
                /\ env.outDir \in disk.dirs
                /\ build.jobs[job].result.output[1].fileName = EntryFileName(env)
                /\ disk.index[1 + i] =
                      "import " \o name \o " from './" \o name \o "/"
                          \o build.jobs[job].result.output[1].fileName \o "';"

\* the manifest module of a configuration that declares admin before api is
\* on disk
C20_Witness ==
    /\ ManifestWritten
    /\ DeclaredNames = <<"admin", "api">>
    /\ disk.index[2] = "import admin from './admin/b.js';"
    /\ disk.index[3] = "import api from './api/a.js';"


====
